---- MODULE Spec2Model ----
(***************************************************************************)
(* Model of the inventory application: the dashboard page (aggregation of  *)
(* a user's product records), the inventory page with its Pagination       *)
(* component, and the createProduct / deleteProduct server actions.        *)
(***************************************************************************)
EXTENDS Integers, Sequences, FiniteSets, TLC


\* ------------------------------------------------------------------------
\* Bounds of the model
\* ------------------------------------------------------------------------
\* longest product table drawn record by record from Pool
MaxProducts == 2
\* largest product table made of runs of equal records (BulkStores)
MaxBulk == 40
\* instants modelled per day: tick 0 is 00:00:00.000, the last tick 23:59:59.999
TicksPerDay == 3
\* the day "today" of the modelled clock, counted from 1 January
Today == 100
\* largest currentPage and totalPages handed to the Pagination component
MaxPage == 12
\* most rows createProduct stores in one behaviour
MaxCreated == 1
\* rows of a browsed table, and the highest page a browse asks for
MaxBrowse == 11
MaxBrowsePage == 3

\* ------------------------------------------------------------------------
\* Program constants
\* ------------------------------------------------------------------------
\* for (let i = 11; i >= 0; i--)
LastWeekIndex == 11
\* quantity > 5 / quantity <= 5 of the stock level breakdown
BreakdownThreshold == 5
\* quantity: { lte: 5 } of the "low stock" count query
LowStockQueryMax == 5
\* product.lowStockAt || 5
DefaultThreshold == 5
\* take: 5 of the "recent" query
RecentTake == 5
\* const pageSize = 5 of InventoryPage
pageSize == 5
\* const delta = 2 of getVisiblePages
delta == 2
\* weekStart.getDate() - i * 7, weekEnd.getDate() + 6
DaysPerWeek == 7
WeekEndOffset == 6

\* ------------------------------------------------------------------------
\* Data
\* ------------------------------------------------------------------------
Users == {"u1", "u2"}

\* a nullable column: NULL, or Some(v)
NULL == <<>>
Some(v) == <<v>>
Val(o) == o[1]

\* an instant is day * TicksPerDay + tick
At(day, tick) == day * TicksPerDay + tick
LastTick == TicksPerDay - 1

\* A row of the Product table.
Product(id, userId, name, price, quantity, sku, lowStockAt, createdAt) ==
  [id |-> id, userId |-> userId, name |-> name, price |-> price,
   quantity |-> quantity, sku |-> sku, lowStockAt |-> lowStockAt,
   createdAt |-> createdAt]

VARIABLES
  products,    \* the Product table, a sequence of rows
  dashboard,   \* what DashboardPage last computed and rendered, or NotRendered
  inventory,   \* what InventoryPage last computed and rendered, or NotRendered
  nav,         \* what the Pagination component last rendered, or NotRendered
  outcome,     \* how the last server action ended, or NotCalled
  created      \* the number of rows createProduct has stored

vars == <<products, dashboard, inventory, nav, outcome, created>>

NotRendered == [rendered |-> FALSE]
NotCalled == [called |-> FALSE]

\* No page or component has been rendered yet.  The pages keep nothing
\* between requests, so a behaviour follows one rendering: the Request
\* actions below are enabled while this holds.
NothingRendered == ~dashboard.rendered /\ ~inventory.rendered /\ ~nav.called

\* ------------------------------------------------------------------------
\* IEEE-754 double arithmetic, as far as Math.round((count / total) * 100)
\* needs it.  A double's 53-bit significand is held as four little-endian
\* limbs of 16 bits, <<m0, m1, m2, m3>>; the top limb is not reduced.
\* ------------------------------------------------------------------------
Limb == 2^16

RECURSIVE ShiftUp(_, _, _)
\* least k >= 0 with c * 2^k >= t
ShiftUp(c, t, k) == IF c >= t THEN k ELSE ShiftUp(2 * c, t, k + 1)

RECURSIVE ShiftDown(_, _, _)
\* greatest j >= 0 with c >= t * 2^j   (c >= t)
ShiftDown(c, t, j) == IF c < 2 * t THEN j ELSE ShiftDown(c, 2 * t, j + 1)

\* the limbs m plus a small number a
AddLimbs(m, a) ==
  LET s0 == m[1] + a
      s1 == m[2] + (s0 \div Limb)
      s2 == m[3] + (s1 \div Limb)
      s3 == m[4] + (s2 \div Limb)
  IN  <<s0 % Limb, s1 % Limb, s2 % Limb, s3>>

\* the limbs m times a small number f
MulLimbs(m, f) ==
  LET p0 == m[1] * f
      p1 == m[2] * f + (p0 \div Limb)
      p2 == m[3] * f + (p1 \div Limb)
      p3 == m[4] * f + (p2 \div Limb)
  IN  <<p0 % Limb, p1 % Limb, p2 % Limb, p3>>

\* count / total for count >= 1: the double nearest the quotient (ties to
\* even), as [m |-> significand in [2^52, 2^53], e |-> E] with value m * 2^-E.
DoubleDiv(c, t) ==
  LET k  == IF c < t THEN ShiftUp(c, t, 0) ELSE 0 - ShiftDown(c, t, 0)
      n  == IF c < t THEN c * 2^k ELSE c
      d  == IF c < t THEN t ELSE t * 2^(0 - k)
      \* long division of n * 2^52 = (16 n) * Limb^3 by d
      q3 == (16 * n) \div d
      r3 == (16 * n) % d
      q2 == (r3 * Limb) \div d
      r2 == (r3 * Limb) % d
      q1 == (r2 * Limb) \div d
      r1 == (r2 * Limb) % d
      q0 == (r1 * Limb) \div d
      r0 == (r1 * Limb) % d
      up == (2 * r0 > d) \/ (2 * r0 = d /\ q0 % 2 = 1)
  IN  [m |-> AddLimbs(<<q0, q1, q2, q3>>, IF up THEN 1 ELSE 0), e |-> 52 + k]

\* x * 100 for a double x: the exact product rounded to 53 significant bits
\* (ties to even); the result keeps x's exponent, its low bits are zero.
DoubleTimes100(x) ==
  LET p    == MulLimbs(x.m, 100)
      s    == IF p[4] >= 2^11 THEN 7 ELSE 6
      rem  == p[1] % (2^s)
      lsb  == (p[1] \div (2^s)) % 2
      up   == (rem > 2^(s - 1)) \/ (rem = 2^(s - 1) /\ lsb = 1)
  IN  [m |-> AddLimbs(<<p[1] - rem, p[2], p[3], p[4]>>, IF up THEN 2^s ELSE 0),
       e |-> x.e]

\* Math.round(x) for a double x >= 0: the nearest integer, ties upwards.
MathRound(x) ==
  LET v == x.m[4] * Limb + x.m[3]      \* bits 32 and up of the significand
  IN  ((v \div (2^(x.e - 33))) + 1) \div 2

\* Math.round((count / total) * 100), total >= 1
RoundedPercent(count, total) ==
  IF count = 0 THEN 0 ELSE MathRound(DoubleTimes100(DoubleDiv(count, total)))

\* ------------------------------------------------------------------------
\* Dates (JavaScript Date in the server's local time, without DST changes)
\* ------------------------------------------------------------------------
\* d.setDate(d.getDate() + n): n calendar days later, same time of day
AddDays(t, n) == t + n * TicksPerDay
\* d.setHours(0, 0, 0, 0)
StartOfDay(t) == (t \div TicksPerDay) * TicksPerDay
\* d.setHours(23, 59, 59, 999)
EndOfDay(t) == (t \div TicksPerDay) * TicksPerDay + LastTick

\* the calendar of a year of 365 days; day 0 is 1 January
DaysInMonth == <<31, 28, 31, 30, 31, 30, 31, 31, 30, 31, 30, 31>>

RECURSIVE MonthAndDate(_, _)
\* <<getMonth() + 1, getDate()>> of the d-th day (from 0) after the 1st of month m
MonthAndDate(d, m) ==
  IF d < DaysInMonth[m] THEN <<m, d + 1>> ELSE MonthAndDate(d - DaysInMonth[m], m + 1)

DigitChars == <<"0", "1", "2", "3", "4", "5", "6", "7", "8", "9">>

\* String(n).padStart(2, "0") for 0 <= n <= 99, as a sequence of characters
PadStart2(n) ==
  IF n < 10 THEN <<"0", DigitChars[n + 1]>>
  ELSE <<DigitChars[(n \div 10) + 1], DigitChars[(n % 10) + 1]>>

\* the week label MM/DD of the instant t
WeekLabel(t) ==
  LET md == MonthAndDate((t \div TicksPerDay) % 365, 1)
  IN  PadStart2(md[1]) \o <<"/">> \o PadStart2(md[2])

\* a week start that steps back one day too few per week
WeekStartSixDays(now, i) == StartOfDay(AddDays(now, 0 - i * WeekEndOffset))
\* weekStart of loop iteration i
WeekStart(now, i) == StartOfDay(AddDays(now, 0 - i * DaysPerWeek))
\* weekEnd of a week that starts at weekStart
WeekEnd(weekStart) == EndOfDay(AddDays(weekStart, WeekEndOffset))

\* ------------------------------------------------------------------------
\* Strings, as sequences of characters
\* ------------------------------------------------------------------------
RECURSIVE Digits(_)
\* the decimal digits of n >= 0
Digits(n) ==
  IF n < 10 THEN <<DigitChars[n + 1]>>
  ELSE Digits(n \div 10) \o <<DigitChars[(n % 10) + 1]>>

\* String(n) for an integer n
NumberToString(n) == IF n < 0 THEN <<"-">> \o Digits(0 - n) ELSE Digits(n)

DigitValue(ch) == CHOOSE d \in 0..9 : DigitChars[d + 1] = ch

RECURSIVE DigitsValue(_)
DigitsValue(s) ==
  IF s = <<>> THEN 0
  ELSE 10 * DigitsValue(SubSeq(s, 1, Len(s) - 1)) + DigitValue(s[Len(s)])

\* Number(s) for the strings the model passes as ?page=: the empty string
\* is 0, an optional minus sign and digits are that integer
Number(s) ==
  IF s = <<>> THEN 0
  ELSE IF Head(s) = "-" THEN 0 - DigitsValue(Tail(s))
  ELSE DigitsValue(s)

RECURSIVE TrimStart(_)
TrimStart(s) == IF s # <<>> /\ Head(s) = " " THEN TrimStart(Tail(s)) ELSE s

RECURSIVE TrimEnd(_)
TrimEnd(s) ==
  IF s # <<>> /\ s[Len(s)] = " " THEN TrimEnd(SubSeq(s, 1, Len(s) - 1)) ELSE s

\* s.trim()
Trim(s) == TrimEnd(TrimStart(s))

\* lower case of the letters the model uses
LowerChar(ch) == IF ch = "A" THEN "a" ELSE IF ch = "B" THEN "b" ELSE ch
Lower(s) == [i \in 1..Len(s) |-> LowerChar(s[i])]

\* name: { contains: q, mode: "insensitive" }
ContainsInsensitive(name, q) ==
  \E k \in 0..(Len(name) - Len(q)) :
    SubSeq(Lower(name), k + 1, k + Len(q)) = Lower(q)

Max(a, b) == IF a >= b THEN a ELSE b
Min(a, b) == IF a <= b THEN a ELSE b

\* ------------------------------------------------------------------------
\* The queries DashboardPage issues
\* ------------------------------------------------------------------------
OwnedBy(rows, userId) == SelectSeq(rows, LAMBDA p : p.userId = userId)

\* prisma.product.count({ where: { userId } })
CountProducts(rows, userId) == Len(OwnedBy(rows, userId))

\* prisma.product.count({ where: { userId, lowStockAt: { not: null }, quantity: { lte: 5 } } })
CountLowStock(rows, userId) ==
  Len(SelectSeq(rows, LAMBDA p : /\ p.userId = userId
                                 /\ p.lowStockAt # NULL
                                 /\ p.quantity <= LowStockQueryMax))

\* prisma.product.findMany({ where: { userId }, select: {...} }): the rows come
\* in table order, reduced to the selected columns
FindAllProducts(rows, userId) ==
  LET own == OwnedBy(rows, userId)
  IN  [i \in 1..Len(own) |->
         [price |-> own[i].price, quantity |-> own[i].quantity,
          createdAt |-> own[i].createdAt, name |-> own[i].name,
          lowStockAt |-> own[i].lowStockAt, id |-> own[i].id]]

\* r put into a sequence sorted by createdAt descending; among rows of equal
\* createdAt the database may answer in either order: after them (tieAsc)
\* or before them
RECURSIVE InsertDesc(_, _, _)
InsertDesc(sorted, r, tieAsc) ==
  IF sorted = <<>> THEN <<r>>
  ELSE IF \/ Head(sorted).createdAt > r.createdAt
          \/ (tieAsc /\ Head(sorted).createdAt = r.createdAt)
       THEN <<Head(sorted)>> \o InsertDesc(Tail(sorted), r, tieAsc)
       ELSE <<r>> \o sorted

RECURSIVE OrderByCreatedAtDesc(_, _)
OrderByCreatedAtDesc(rows, tieAsc) ==
  IF rows = <<>> THEN <<>>
  ELSE InsertDesc(OrderByCreatedAtDesc(SubSeq(rows, 1, Len(rows) - 1), tieAsc),
                  rows[Len(rows)], tieAsc)

Take(rows, n) == SubSeq(rows, 1, IF Len(rows) < n THEN Len(rows) ELSE n)

\* prisma.product.findMany({ where: { userId }, orderBy: { createdAt: "desc" }, take: 5 })
FindRecent(rows, userId, tieAsc) ==
  Take(OrderByCreatedAtDesc(OwnedBy(rows, userId), tieAsc), RecentTake)

\* ------------------------------------------------------------------------
\* The calculations of DashboardPage
\* ------------------------------------------------------------------------
RECURSIVE TotalValue(_)
\* allProducts.reduce((sum, product) => sum + price * quantity, 0)
TotalValue(allProducts) ==
  IF allProducts = <<>> THEN 0
  ELSE TotalValue(SubSeq(allProducts, 1, Len(allProducts) - 1))
       + allProducts[Len(allProducts)].price * allProducts[Len(allProducts)].quantity

\* the filter predicates of the stock level breakdown
IsInStock(p) == p.quantity > BreakdownThreshold
\* a low-stock filter that leaves out the quantity at the threshold
IsLowStockStrict(p) == p.quantity < BreakdownThreshold /\ p.quantity >= 1
IsLowStock(p) == p.quantity <= BreakdownThreshold /\ p.quantity >= 1
IsOutOfStock(p) == p.quantity = 0

InStockCount(allProducts) == Len(SelectSeq(allProducts, IsInStock))
LowStockCount(allProducts) == Len(SelectSeq(allProducts, IsLowStock))
OutOfStockCount(allProducts) == Len(SelectSeq(allProducts, IsOutOfStock))

\* totalProducts > 0 ? Math.round((count / totalProducts) * 100) : 0
Percentage(count, totalProducts) ==
  IF totalProducts > 0 THEN RoundedPercent(count, totalProducts) ELSE 0

\* a window test that leaves out the window's last instant
InWeekOpenEnd(product, weekStart, weekEnd) ==
  product.createdAt >= weekStart /\ product.createdAt < weekEnd
\* productDate >= weekStart && productDate <= weekEnd
InWeek(product, weekStart, weekEnd) ==
  product.createdAt >= weekStart /\ product.createdAt <= weekEnd

\* allProducts.filter(...) of one loop iteration
WeekProducts(allProducts, weekStart, weekEnd) ==
  SelectSeq(allProducts, LAMBDA p : InWeek(p, weekStart, weekEnd))

\* the loop index of the n-th entry pushed
WeekIndex(n) == LastWeekIndex + 1 - n

\* weeklyProductsData after the loop: entry n is pushed by iteration
\* i = WeekIndex(n); weekStart and weekEnd are the loop's locals of that
\* iteration, kept beside the entry
WeeklyProductsData(allProducts, now) ==
  [n \in 1..(LastWeekIndex + 1) |->
     LET weekStart == WeekStart(now, WeekIndex(n))
         weekEnd   == WeekEnd(weekStart)
     IN  [week      |-> WeekLabel(weekStart),
          products  |-> Len(WeekProducts(allProducts, weekStart, weekEnd)),
          weekStart |-> weekStart,
          weekEnd   |-> weekEnd]]

\* the stock level of a row of the Stock Levels list: 0 = out of stock,
\* 1 = low stock, 2 = in stock.  lowStockAt || 5 is 5 for null and for 0.
RowThreshold(product) ==
  IF product.lowStockAt = NULL \/ Val(product.lowStockAt) = 0
  THEN DefaultThreshold ELSE Val(product.lowStockAt)

StockLevel(product) ==
  IF product.quantity = 0 THEN 0
  ELSE IF product.quantity <= RowThreshold(product) THEN 1
  ELSE 2

\* everything DashboardPage computes from the answers of its queries
Render(totalProducts, lowStock, allProducts, recent, now) ==
  [rendered             |-> TRUE,
   now                  |-> now,
   totalProducts        |-> totalProducts,
   lowStock             |-> lowStock,
   allProducts          |-> allProducts,
   totalValue           |-> TotalValue(allProducts),
   inStockCount         |-> InStockCount(allProducts),
   lowStockCount        |-> LowStockCount(allProducts),
   outOfStockCount      |-> OutOfStockCount(allProducts),
   inStockPercentage    |-> Percentage(InStockCount(allProducts), totalProducts),
   lowStockPercentage   |-> Percentage(LowStockCount(allProducts), totalProducts),
   outOfStockPercentage |-> Percentage(OutOfStockCount(allProducts), totalProducts),
   weeklyProductsData   |-> WeeklyProductsData(allProducts, now),
   recent               |-> recent,
   stockLevels          |-> [i \in 1..Len(recent) |-> StockLevel(recent[i])]]

\* A request for /dashboard by the signed-in user userId at the instant now.
DashboardPage(userId, now, tieAsc) ==
  /\ dashboard' = Render(CountProducts(products, userId),
                         CountLowStock(products, userId),
                         FindAllProducts(products, userId),
                         FindRecent(products, userId, tieAsc),
                         now)
  /\ UNCHANGED <<products, inventory, nav, outcome, created>>

\* ------------------------------------------------------------------------
\* Product tables the dashboard is exercised on
\* ------------------------------------------------------------------------
\* <<quantity, lowStockAt>> of the rows that differ in stock
StockCases ==
  { <<0, NULL>>, <<0, Some(10)>>, <<5, NULL>>, <<6, NULL>>,
    <<10, Some(10)>>, <<11, Some(10)>>, <<3, Some(0)>>, <<6, Some(0)>> }

\* createdAt of the rows that differ in age: around the oldest week's start,
\* around the boundary between the two oldest weeks, and today
CreatedAts ==
  { At(Today - 78, LastTick), At(Today - 77, 0), At(Today - 71, LastTick),
    At(Today - 70, 0), At(Today, 0) }

\* the instants at which the dashboard is requested
Nows == { At(Today, 0), At(Today, LastTick), At(Today + 1, 1) }

\* rows without their id
Pool ==
  { Product(<<>>, "u1", <<"a">>, 2, c[1], NULL, c[2], At(Today - 3, 1)) : c \in StockCases }
  \cup { Product(<<>>, "u1", <<"B", "a">>, 3, 6, Some(<<"s">>), NULL, t) : t \in CreatedAts }
  \cup { Product(<<>>, "u2", <<"a">>, 2, 3, NULL, NULL, At(Today - 70, 0)) }

\* a table of the rows f[1], ..., f[n], their ids "1", ..., "n" in table order
Numbered(f) == [i \in DOMAIN f |-> [f[i] EXCEPT !.id = NumberToString(i)]]

\* every table of at most MaxProducts rows of Pool
PoolStores ==
  UNION { { Numbered(f) : f \in [1..n -> Pool] } : n \in 0..MaxProducts }

\* the table of u1 with the given quantities, no thresholds
QuantityStore(quantities) ==
  Numbered([i \in DOMAIN quantities |->
              Product(<<>>, "u1", <<"a">>, 2, quantities[i], NULL, NULL, At(Today - 3, 1))])

\* low rows of quantity 3, then inn rows of quantity 6
BulkQuantities(low, inn) ==
  [i \in 1..(low + inn) |-> IF i <= low THEN 3 ELSE 6]

\* every such table of at most MaxBulk rows
BulkStores ==
  { QuantityStore(BulkQuantities(c[1], c[2])) :
      c \in { x \in (0..MaxBulk) \X (0..MaxBulk) : x[1] + x[2] <= MaxBulk } }

\* the table of the worked example
ExampleStore == QuantityStore(<<0, 3, 3, 6, 6, 6, 10>>)

\* ------------------------------------------------------------------------
\* The dashboard, requested over any of these tables
\* ------------------------------------------------------------------------
InitDashboard ==
  /\ products \in PoolStores \cup BulkStores \cup {ExampleStore}
  /\ dashboard = NotRendered
  /\ inventory = NotRendered
  /\ nav = NotCalled
  /\ outcome = NotCalled
  /\ created = 0

\* some request for /dashboard, the first rendering of the behaviour
RequestDashboard ==
  /\ NothingRendered
  /\ \E userId \in Users, now \in Nows, tieAsc \in BOOLEAN :
       DashboardPage(userId, now, tieAsc)

NextDashboard == RequestDashboard

SpecDashboard == InitDashboard /\ [][NextDashboard]_vars

\* ------------------------------------------------------------------------
\* The Pagination component
\* ------------------------------------------------------------------------
\* a token of the visible pages: a page number, or "..."
PageToken(n) == [ellipsis |-> FALSE, page |-> n]
Ellipsis == [ellipsis |-> TRUE, page |-> 0]

\* getPageUrl(page): baseUrl and the query { ...searchParams, page: String(page) }
GetPageUrl(baseUrl, searchParams, page) ==
  [baseUrl |-> baseUrl,
   query   |-> [k \in DOMAIN searchParams \cup {"page"} |->
                  IF k = "page" THEN NumberToString(page) ELSE searchParams[k]]]

\* visible pages whose trailing "..." is decided against the last page itself
GetVisiblePagesLateDots(currentPage, totalPages) ==
  LET first == Max(2, currentPage - delta)
      last  == Min(totalPages - 1, currentPage + delta)
      range == [i \in 1..(last - first + 1) |-> PageToken(first + i - 1)]
      head  == IF currentPage - delta > 2
               THEN <<PageToken(1), Ellipsis>> ELSE <<PageToken(1)>>
      tail  == IF currentPage + delta < totalPages
               THEN <<Ellipsis, PageToken(totalPages)>> ELSE <<PageToken(totalPages)>>
  IN  head \o range \o tail

\* getVisiblePages()
GetVisiblePages(currentPage, totalPages) ==
  LET first == Max(2, currentPage - delta)
      last  == Min(totalPages - 1, currentPage + delta)
      range == [i \in 1..(last - first + 1) |-> PageToken(first + i - 1)]
      head  == IF currentPage - delta > 2
               THEN <<PageToken(1), Ellipsis>> ELSE <<PageToken(1)>>
      tail  == IF currentPage + delta < totalPages - 1
               THEN <<Ellipsis, PageToken(totalPages)>> ELSE <<PageToken(totalPages)>>
  IN  head \o range \o tail

\* what Pagination returns: null, or the <nav> with its links
NoElement == [rendered |-> FALSE]

\* the <nav> of Pagination, rendered past the guard clause
PaginationNav(currentPage, totalPages, baseUrl, searchParams) ==
  LET visiblePages == GetVisiblePages(currentPage, totalPages)
  IN    [rendered     |-> TRUE,
         visiblePages |-> visiblePages,
         previous     |-> [href     |-> GetPageUrl(baseUrl, searchParams, currentPage - 1),
                           disabled |-> currentPage <= 1],
         links        |-> [i \in 1..Len(visiblePages) |->
                             IF visiblePages[i].ellipsis
                             THEN [ellipsis |-> TRUE]
                             ELSE [ellipsis      |-> FALSE,
                                   pageNumber    |-> visiblePages[i].page,
                                   href          |-> GetPageUrl(baseUrl, searchParams,
                                                                visiblePages[i].page),
                                   isCurrentPage |-> visiblePages[i].page = currentPage]],
         next         |-> [href     |-> GetPageUrl(baseUrl, searchParams, currentPage + 1),
                           disabled |-> currentPage >= totalPages]]

\* a Pagination whose guard clause lets a single page through
PaginationLooseGuard(currentPage, totalPages, baseUrl, searchParams) ==
  IF totalPages < 1 THEN NoElement
  ELSE PaginationNav(currentPage, totalPages, baseUrl, searchParams)

\* Pagination: if (totalPages <= 1) return null; otherwise the <nav>
Pagination(currentPage, totalPages, baseUrl, searchParams) ==
  IF totalPages <= 1 THEN NoElement
  ELSE PaginationNav(currentPage, totalPages, baseUrl, searchParams)

\* The component rendered with the given props.
RenderPagination(currentPage, totalPages, baseUrl, searchParams) ==
  /\ nav' = [called       |-> TRUE,
             currentPage  |-> currentPage,
             totalPages   |-> totalPages,
             baseUrl      |-> baseUrl,
             searchParams |-> searchParams,
             element      |-> Pagination(currentPage, totalPages, baseUrl, searchParams)]
  /\ UNCHANGED <<products, dashboard, inventory, outcome, created>>

\* ------------------------------------------------------------------------
\* InventoryPage
\* ------------------------------------------------------------------------
\* the where clause: the user's rows, whose name contains q when q is not empty
Matches(p, userId, q) ==
  /\ p.userId = userId
  /\ (q # <<>> => ContainsInsensitive(p.name, q))

Where(rows, userId, q) == SelectSeq(rows, LAMBDA p : Matches(p, userId, q))

\* rows.slice(skip, skip + take)
SkipTake(rows, skip, take) ==
  SubSeq(rows, skip + 1, Min(Len(rows), skip + take))

\* Math.ceil(a / b) for a >= 0, b > 0
Ceil(a, b) == (a + b - 1) \div b

\* A request for /inventory?q=..&page=.. by the signed-in user userId;
\* params.q and params.page are NULL when absent.
InventoryPage(userId, paramQ, paramPage, tieAsc) ==
  LET q          == Trim(IF paramQ = NULL THEN <<>> ELSE Val(paramQ))
      page       == Max(1, IF paramPage = NULL THEN 1 ELSE Number(Val(paramPage)))
      matching   == Where(products, userId, q)
      totalCount == Len(matching)
      items      == SkipTake(OrderByCreatedAtDesc(matching, tieAsc),
                             (page - 1) * pageSize, pageSize)
      totalPages == Max(1, Ceil(totalCount, pageSize))
  IN
  /\ inventory' =
       [rendered   |-> TRUE,
        userId     |-> userId,
        params     |-> [q |-> paramQ, page |-> paramPage],
        q          |-> q,
        page       |-> page,
        totalCount |-> totalCount,
        items      |-> items,
        totalPages |-> totalPages,
        pagination |-> IF totalPages > 1
                       THEN Pagination(page, totalPages, <<"/", "inventory">>,
                                       [k \in {"q", "pageSize"} |->
                                          IF k = "q" THEN q ELSE NumberToString(pageSize)])
                       ELSE NoElement]
  /\ UNCHANGED <<products, dashboard, nav, outcome, created>>

\* ------------------------------------------------------------------------
\* The inventory page and the Pagination component, over product tables
\* ------------------------------------------------------------------------
\* the table of n equal rows of u1, for every n up to MaxBulk
RunStores == { QuantityStore(BulkQuantities(0, n)) : n \in 0..MaxBulk }

\* params.q: absent, empty, matching in another case, to be trimmed, not matching
ParamQs ==
  { NULL, Some(<<>>), Some(<<"A">>), Some(<<" ", "b", "a", " ">>), Some(<<"z">>) }

\* params.page: absent, empty, and the integers from -1 to MaxPage
ParamPages ==
  { NULL, Some(<<>>) } \cup { Some(NumberToString(n)) : n \in (0 - 1)..MaxPage }

\* searchParams handed to a Pagination rendered on its own
SearchParamsCases ==
  { [k \in {"q"} |-> <<"a">>],
    [k \in {"q", "pageSize", "page"} |->
       IF k = "q" THEN <<>> ELSE IF k = "page" THEN <<"9">> ELSE <<"5">>] }

\* rows without their id that differ in owner, name and age
InventoryPool ==
  { Product(<<>>, "u1", <<"a">>, 2, 3, NULL, NULL, At(Today - 3, 1)),
    Product(<<>>, "u1", <<"B", "a">>, 3, 6, Some(<<"s">>), Some(10), At(Today - 3, 1)),
    Product(<<>>, "u1", <<"b">>, 2, 0, NULL, NULL, At(Today, 0)),
    Product(<<>>, "u2", <<"a">>, 2, 3, NULL, NULL, At(Today - 70, 0)) }

\* every table of at most MaxProducts rows of InventoryPool
InventoryStores ==
  UNION { { Numbered(f) : f \in [1..n -> InventoryPool] } : n \in 0..MaxProducts }

InitInventory ==
  /\ products \in InventoryStores \cup RunStores
  /\ dashboard = NotRendered
  /\ inventory = NotRendered
  /\ nav = NotCalled
  /\ outcome = NotCalled
  /\ created = 0

\* some request for /inventory, the first rendering of the behaviour
RequestInventory ==
  /\ NothingRendered
  /\ \E userId \in Users, paramQ \in ParamQs, paramPage \in ParamPages,
        tieAsc \in BOOLEAN :
       InventoryPage(userId, paramQ, paramPage, tieAsc)

\* some rendering of the Pagination component, the first of the behaviour
RenderSomePagination ==
  /\ NothingRendered
  /\ \E currentPage \in 1..MaxPage, totalPages \in 0..MaxPage,
        searchParams \in SearchParamsCases :
       RenderPagination(currentPage, totalPages, <<"/", "inventory">>, searchParams)

NextInventory == RequestInventory \/ RenderSomePagination

SpecInventory == InitInventory /\ [][NextInventory]_vars

\* ------------------------------------------------------------------------
\* A user browsing the inventory: request after request over one table
\* ------------------------------------------------------------------------
\* the table of n rows, oldest first: every fourth row of u2, the others of
\* u1, every third row named "b", the others "a"; created a day apart, or
\* (shared) two by two
\* at the same instant
BrowseStore(n, shared) ==
  Numbered([i \in 1..n |->
              Product(<<>>, IF i % 4 = 0 THEN "u2" ELSE "u1",
                      IF i % 3 = 0 THEN <<"b">> ELSE <<"a">>, 2, 3, NULL, NULL,
                      At(Today - (IF shared THEN (n - i) \div 2 ELSE n - i), 0))])

BrowseStores == { BrowseStore(n, shared) : n \in 0..MaxBrowse, shared \in BOOLEAN }

\* params.q and params.page of the requests of a browse
BrowseQs == { NULL, Some(<<"a">>) }
BrowsePages == { NULL } \cup { Some(NumberToString(n)) : n \in 0..MaxBrowsePage }

InitBrowse ==
  /\ products \in BrowseStores
  /\ dashboard = NotRendered
  /\ inventory = NotRendered
  /\ nav = NotCalled
  /\ outcome = NotCalled
  /\ created = 0

\* one more request for /inventory
BrowseInventory ==
  \E userId \in Users, paramQ \in BrowseQs, paramPage \in BrowsePages,
     tieAsc \in BOOLEAN :
    InventoryPage(userId, paramQ, paramPage, tieAsc)

NextBrowse == BrowseInventory

SpecBrowse == InitBrowse /\ [][NextBrowse]_vars

\* ------------------------------------------------------------------------
\* The server actions deleteProduct and createProduct
\* ------------------------------------------------------------------------
IsDigits(s) == \A k \in 1..Len(s) : \E d \in 1..10 : DigitChars[d] = s[k]

\* the position of the first "." of s, or 0
DotAt(s) ==
  IF \E k \in 1..Len(s) : s[k] = "."
  THEN CHOOSE k \in 1..Len(s) : s[k] = "." /\ \A j \in 1..(k - 1) : s[j] # "."
  ELSE 0

NaN == [nan |-> TRUE, tenths |-> 0]
Tenths(n) == [nan |-> FALSE, tenths |-> n]

\* Number(s) of an unsigned decimal literal with at most one fractional
\* digit, in tenths; NaN for anything else
UnsignedNumber(s) ==
  LET dot   == DotAt(s)
      whole == IF dot = 0 THEN s ELSE SubSeq(s, 1, dot - 1)
      frac  == IF dot = 0 THEN <<>> ELSE SubSeq(s, dot + 1, Len(s))
  IN  IF /\ IsDigits(whole) /\ IsDigits(frac) /\ Len(frac) <= 1
         /\ Len(whole) + Len(frac) >= 1
      THEN Tenths(10 * DigitsValue(whole) + DigitsValue(frac))
      ELSE NaN

\* z.coerce: Number(input) of a form field: null and "" are 0, a decimal
\* literal is its value, any other string is NaN
CoerceNumber(input) ==
  IF input = NULL \/ Val(input) = <<>> THEN Tenths(0)
  ELSE IF Head(Val(input)) = "-"
       THEN LET u == UnsignedNumber(Tail(Val(input)))
            IN  IF u.nan THEN NaN ELSE Tenths(0 - u.tenths)
       ELSE UnsignedNumber(Val(input))

\* name: z.string().min(1)
NameOk(input) == input # NULL /\ Len(Val(input)) >= 1
\* price: z.coerce.number().nonnegative()
PriceOk(input) == ~CoerceNumber(input).nan /\ CoerceNumber(input).tenths >= 0
\* quantity: z.coerce.number().int().min(0)
QuantityOk(input) ==
  /\ ~CoerceNumber(input).nan
  /\ CoerceNumber(input).tenths % 10 = 0
  /\ CoerceNumber(input).tenths >= 0

\* formData.get("sku") || undefined
SkuInput(formData) ==
  IF formData.sku = NULL \/ Val(formData.sku) = <<>> THEN NULL ELSE formData.sku

\* a schema that leaves the quantity unchecked
ParseSuccessAnyQuantity(formData) ==
  NameOk(formData.name) /\ PriceOk(formData.price) /\ ~CoerceNumber(formData.quantity).nan
\* ProductSchema.safeParse({ name, price, quantity, sku }).success; the
\* form's lowStockAt is not handed to the schema
ParseSuccess(formData) ==
  NameOk(formData.name) /\ PriceOk(formData.price) /\ QuantityOk(formData.quantity)

\* parsed.data with userId, as the row prisma.product.create stores: the id
\* and createdAt are the table's defaults, lowStockAt is not part of the data.
\* The price is held in tenths.
CreatedRow(formData, userId, id, now) ==
  Product(id, userId, Val(formData.name), CoerceNumber(formData.price).tenths,
          CoerceNumber(formData.quantity).tenths \div 10, SkuInput(formData), NULL, now)

\* String(formData.get("id") || "")
IdInput(formData) == IF formData.id = NULL THEN <<>> ELSE Val(formData.id)

\* a where clause that leaves out the owner
DeleteWhereAnyOwner(p, id, userId) == p.id = id
\* where: { id: id, userId: user.id } of deleteMany
DeleteWhere(p, id, userId) == p.id = id /\ p.userId = userId

\* deleteProduct(formData) called by the signed-in user userId; dbOk tells
\* whether the database carries out the deleteMany or rejects it.
deleteProduct(userId, formData, dbOk) ==
  LET id   == IdInput(formData)
      kept == SelectSeq(products, LAMBDA p : ~DeleteWhere(p, id, userId))
  IN
  /\ products' = IF dbOk THEN kept ELSE products
  /\ outcome' = [called   |-> TRUE,
                 action   |-> "deleteProduct",
                 userId   |-> userId,
                 formData |-> formData,
                 dbOk     |-> dbOk,
                 count    |-> IF dbOk THEN Len(products) - Len(kept) ELSE 0,
                 error    |-> IF dbOk THEN NULL ELSE Some("database error"),
                 redirect |-> NULL]
  /\ UNCHANGED <<dashboard, inventory, nav, created>>

\* createProduct(formData) called by the signed-in user userId at the instant
\* now; dbOk tells whether the database carries out the create or rejects it.
\* redirect("/inventory") signals the redirect by throwing; thrown inside the
\* try block, it is caught by the catch clause, which throws "Failed to
\* create product" in its place.
createProduct(userId, formData, dbOk) ==
  LET success == ParseSuccess(formData)
      stored  == success /\ dbOk
      now     == At(Today, 0) + created
  IN
  /\ stored => created < MaxCreated
  /\ products' = IF stored
                 THEN Append(products,
                             CreatedRow(formData, userId,
                                        <<"c">> \o NumberToString(created + 1), now))
                 ELSE products
  /\ created' = IF stored THEN created + 1 ELSE created
  /\ outcome' = [called   |-> TRUE,
                 action   |-> "createProduct",
                 userId   |-> userId,
                 formData |-> formData,
                 dbOk     |-> dbOk,
                 count    |-> IF stored THEN 1 ELSE 0,
                 error    |-> IF ~success THEN Some("Validation failed")
                              ELSE Some("Failed to create product"),
                 redirect |-> NULL]
  /\ UNCHANGED <<dashboard, inventory, nav>>

\* ------------------------------------------------------------------------
\* The server actions, called in any order over a product table
\* ------------------------------------------------------------------------
\* the form every field of which is valid
BaseForm ==
  [name |-> Some(<<"a">>), price |-> Some(<<"2">>), quantity |-> Some(<<"3">>),
   sku |-> Some(<<"s">>), lowStockAt |-> NULL]

\* forms that differ from BaseForm in one field: each way to fail the
\* schema, and the optional fields absent, empty or present
CreateForms ==
  {BaseForm}
  \cup { [BaseForm EXCEPT !.name = v] : v \in {NULL, Some(<<>>)} }
  \cup { [BaseForm EXCEPT !.price = v] :
           v \in {NULL, Some(<<"a", "b">>), Some(<<"-", "1">>)} }
  \cup { [BaseForm EXCEPT !.quantity = v] :
           v \in {Some(<<"a", "b">>), Some(<<"-", "1">>), Some(<<"1", ".", "5">>)} }
  \cup { [BaseForm EXCEPT !.sku = v] : v \in {Some(<<>>)} }
  \cup { [BaseForm EXCEPT !.lowStockAt = v] : v \in {Some(<<"4">>)} }

\* the forms of the Delete buttons: no id, the id of a seeded row, of a
\* created row, of no row
DeleteForms ==
  { [id |-> v] : v \in {NULL, Some(<<"1">>), Some(<<"c", "1">>), Some(<<"9">>)} }

\* the tables the actions start from: empty, one row of each user, two rows
\* of one user
SeedStores ==
  { <<>>,
    Numbered(<<Product(<<>>, "u1", <<"a">>, 20, 3, NULL, NULL, At(Today - 3, 1)),
               Product(<<>>, "u2", <<"a">>, 20, 3, NULL, NULL, At(Today - 70, 0))>>),
    Numbered(<<Product(<<>>, "u2", <<"b">>, 20, 0, NULL, Some(10), At(Today - 3, 1)),
               Product(<<>>, "u2", <<"B", "a">>, 30, 6, Some(<<"s">>), NULL, At(Today - 3, 1))>>) }

InitProducts ==
  /\ products \in SeedStores
  /\ dashboard = NotRendered
  /\ inventory = NotRendered
  /\ nav = NotCalled
  /\ outcome = NotCalled
  /\ created = 0

CallDeleteProduct ==
  \E userId \in Users, formData \in DeleteForms, dbOk \in BOOLEAN :
    deleteProduct(userId, formData, dbOk)

CallCreateProduct ==
  \E userId \in Users, formData \in CreateForms, dbOk \in BOOLEAN :
    createProduct(userId, formData, dbOk)

NextProducts == CallDeleteProduct \/ CallCreateProduct

SpecProducts == InitProducts /\ [][NextProducts]_vars

\* ------------------------------------------------------------------------
\* A dashboard request whose queries are answered one by one, while server
\* actions of other requests commit in between
\* ------------------------------------------------------------------------
\* the request has been received and has not rendered yet
InFlight == dashboard # NotRendered /\ ~dashboard.rendered

\* DashboardPage is entered by the signed-in user userId at the instant now:
\* Promise.all issues the three queries, none is answered yet
StartDashboard(userId, now) ==
  /\ dashboard = NotRendered
  /\ dashboard' = [rendered      |-> FALSE,
                    userId        |-> userId,
                    now           |-> now,
                    totalProducts |-> NULL,
                    lowStock      |-> NULL,
                    allProducts   |-> NULL]
  /\ UNCHANGED <<products, inventory, nav, outcome, created>>

\* the database answers prisma.product.count({ where: { userId } })
AnswerCount ==
  /\ InFlight /\ dashboard.totalProducts = NULL
  /\ dashboard' = [dashboard EXCEPT
                     !.totalProducts = Some(CountProducts(products, dashboard.userId))]
  /\ UNCHANGED <<products, inventory, nav, outcome, created>>

\* the database answers the low stock count
AnswerLowStock ==
  /\ InFlight /\ dashboard.lowStock = NULL
  /\ dashboard' = [dashboard EXCEPT
                     !.lowStock = Some(CountLowStock(products, dashboard.userId))]
  /\ UNCHANGED <<products, inventory, nav, outcome, created>>

\* the database answers the findMany of allProducts
AnswerFindMany ==
  /\ InFlight /\ dashboard.allProducts = NULL
  /\ dashboard' = [dashboard EXCEPT
                     !.allProducts = Some(FindAllProducts(products, dashboard.userId))]
  /\ UNCHANGED <<products, inventory, nav, outcome, created>>

\* Promise.all has resolved: the calculations, the findMany of recent and
\* the rendering
FinishDashboard ==
  /\ InFlight
  /\ dashboard.totalProducts # NULL
  /\ dashboard.lowStock # NULL
  /\ dashboard.allProducts # NULL
  /\ \E tieAsc \in BOOLEAN :
       dashboard' = Render(Val(dashboard.totalProducts), Val(dashboard.lowStock),
                           Val(dashboard.allProducts),
                           FindRecent(products, dashboard.userId, tieAsc),
                           dashboard.now)
  /\ UNCHANGED <<products, inventory, nav, outcome, created>>

\* the forms of the actions that commit meanwhile
ConcurrentCreateForms ==
  { BaseForm, [BaseForm EXCEPT !.quantity = Some(<<"0">>)],
    [BaseForm EXCEPT !.quantity = Some(<<"6">>)] }
ConcurrentDeleteForms == { [id |-> v] : v \in {Some(<<"1">>), Some(<<"c", "1">>)} }

InitConcurrent == InitProducts

EnterDashboard == \E userId \in Users : StartDashboard(userId, At(Today, LastTick))

CommitCreateProduct ==
  \E userId \in Users, formData \in ConcurrentCreateForms :
    createProduct(userId, formData, TRUE)

CommitDeleteProduct ==
  \E userId \in Users, formData \in ConcurrentDeleteForms :
    deleteProduct(userId, formData, TRUE)

NextConcurrent ==
  \/ EnterDashboard
  \/ AnswerCount
  \/ AnswerLowStock
  \/ AnswerFindMany
  \/ FinishDashboard
  \/ CommitCreateProduct
  \/ CommitDeleteProduct

SpecConcurrent == InitConcurrent /\ [][NextConcurrent]_vars

\* ------------------------------------------------------------------------
\* Claims about the dashboard (checked under SpecDashboard)
\* ------------------------------------------------------------------------
\* the number of indices of a sequence that satisfy P
CountWhere(seq, P(_)) == Cardinality({ k \in 1..Len(seq) : P(seq[k]) })

\* C1: the three stock counts of a rendered dashboard add up to the number
\* of records aggregated, the empty record set included: every record is
\* counted in exactly one class.
C1_CountsPartitionRecords ==
  dashboard.rendered =>
    dashboard.inStockCount + dashboard.lowStockCount + dashboard.outOfStockCount
      = Len(dashboard.allProducts)

\* C1 witness: a dashboard over records of all three classes
C1_Witness ==
  /\ dashboard.rendered
  /\ dashboard.inStockCount > 0
  /\ dashboard.lowStockCount > 0
  /\ dashboard.outOfStockCount > 0

\* the classification the data model states: the effective threshold is
\* lowStockAt whenever it is set (0 included) and 5 only when it is absent
StatedThreshold(p) == IF p.lowStockAt = NULL THEN 5 ELSE Val(p.lowStockAt)
StatedLevel(p) ==
  IF p.quantity = 0 THEN 0 ELSE IF p.quantity <= StatedThreshold(p) THEN 1 ELSE 2

\* C2: wherever the dashboard classifies a record - the three stock counts
\* and the level of each row of the Stock Levels list - it uses the stated
\* classification: out of stock at quantity 0, low stock up to and including
\* the effective threshold, in stock above it.
C2_StatedClassification ==
  dashboard.rendered =>
    /\ dashboard.outOfStockCount
         = CountWhere(dashboard.allProducts, LAMBDA p : StatedLevel(p) = 0)
    /\ dashboard.lowStockCount
         = CountWhere(dashboard.allProducts, LAMBDA p : StatedLevel(p) = 1)
    /\ dashboard.inStockCount
         = CountWhere(dashboard.allProducts, LAMBDA p : StatedLevel(p) = 2)
    /\ \A i \in 1..Len(dashboard.recent) :
         dashboard.stockLevels[i] = StatedLevel(dashboard.recent[i])

\* round-half-up of count / total * 100 on the exact fraction
HalfUpPercent(count, total) == (200 * count + total) \div (2 * total)

StatedPercentage(count, total) ==
  IF total > 0 THEN HalfUpPercent(count, total) ELSE 0

\* C3: each of the three percentages is round-half-up(count / total * 100)
\* of its own count when total > 0, and 0 when total = 0.
C3_PercentagesRoundHalfUp ==
  dashboard.rendered =>
    /\ dashboard.inStockPercentage
         = StatedPercentage(dashboard.inStockCount, dashboard.totalProducts)
    /\ dashboard.lowStockPercentage
         = StatedPercentage(dashboard.lowStockCount, dashboard.totalProducts)
    /\ dashboard.outOfStockPercentage
         = StatedPercentage(dashboard.outOfStockCount, dashboard.totalProducts)

\* the worked example of C3 as the code computes it: quantities
\* 0, 3, 3, 6, 6, 6, 10 give counts 1, 2, 4 and percentages 14, 29, 57
C3_ExampleHolds ==
  (dashboard.rendered /\ products = ExampleStore /\ dashboard.totalProducts = 7) =>
    /\ dashboard.outOfStockCount = 1 /\ dashboard.outOfStockPercentage = 14
    /\ dashboard.lowStockCount = 2 /\ dashboard.lowStockPercentage = 29
    /\ dashboard.inStockCount = 4 /\ dashboard.inStockPercentage = 57

\* C4: the weekly series has exactly 12 buckets, oldest first and the week
\* that starts today last, consecutive starts exactly 7 days apart, a bucket
\* being emitted whether or not a record falls in it; over an empty record
\* set all 12 counts, the stock counts, the percentages and totalValue are 0.
C4_TwelveWeeklyBuckets ==
  dashboard.rendered =>
    LET weekly == dashboard.weeklyProductsData IN
    /\ Len(weekly) = 12
    /\ weekly[12].weekStart = (dashboard.now \div TicksPerDay) * TicksPerDay
    /\ \A n \in 1..11 : weekly[n + 1].weekStart - weekly[n].weekStart = 7 * TicksPerDay
    /\ \A n \in 1..12 : weekly[n].products >= 0
    /\ dashboard.allProducts = <<>> =>
         /\ \A n \in 1..12 : weekly[n].products = 0
         /\ dashboard.inStockCount = 0
         /\ dashboard.lowStockCount = 0
         /\ dashboard.outOfStockCount = 0
         /\ dashboard.inStockPercentage = 0
         /\ dashboard.lowStockPercentage = 0
         /\ dashboard.outOfStockPercentage = 0
         /\ dashboard.totalValue = 0

\* C4 witness: a series over a non-empty record set with an empty bucket
\* beside a bucket that holds a record
C4_Witness ==
  /\ dashboard.rendered
  /\ dashboard.allProducts # <<>>
  /\ \E n, m \in 1..12 :
       /\ dashboard.weeklyProductsData[n].products = 0
       /\ dashboard.weeklyProductsData[m].products > 0

\* the stated window of loop index i for the anchor now
StatedWindowStart(now, i) == ((now \div TicksPerDay) - i * 7) * TicksPerDay
StatedWindowEnd(now, i) == StatedWindowStart(now, i) + 6 * TicksPerDay + (TicksPerDay - 1)

\* C5: for i from 11 down to 0 the bucket of i counts exactly the records
\* with windowStart_i <= createdAt <= windowEnd_i, each record of an equal
\* createdAt counted, whatever the order of the records; the buckets together
\* count the records between the oldest start and the newest end, so a
\* record older than the oldest start is counted in no bucket.
C5_BucketsCountTheirWindow ==
  dashboard.rendered =>
    LET weekly == dashboard.weeklyProductsData
        all    == dashboard.allProducts
        now    == dashboard.now
    IN
    /\ \A n \in 1..12 :
         weekly[n].products =
           CountWhere(all, LAMBDA p : /\ StatedWindowStart(now, 12 - n) <= p.createdAt
                                      /\ p.createdAt <= StatedWindowEnd(now, 12 - n))
    /\ weekly[1].products + weekly[2].products + weekly[3].products
         + weekly[4].products + weekly[5].products + weekly[6].products
         + weekly[7].products + weekly[8].products + weekly[9].products
         + weekly[10].products + weekly[11].products + weekly[12].products
         = CountWhere(all, LAMBDA p : /\ StatedWindowStart(now, 11) <= p.createdAt
                                      /\ p.createdAt <= StatedWindowEnd(now, 0))

\* C5 witness: one record older than the oldest window start, counted in no
\* bucket, beside one at the last instant of the oldest window, counted there
C5_Witness ==
  /\ dashboard.rendered
  /\ Len(dashboard.allProducts) = 2
  /\ \E k \in 1..2 :
       dashboard.allProducts[k].createdAt < StatedWindowStart(dashboard.now, 11)
  /\ \E k \in 1..2 :
       dashboard.allProducts[k].createdAt = StatedWindowEnd(dashboard.now, 11)
  /\ dashboard.weeklyProductsData[1].products = 1
  /\ \A n \in 2..12 : dashboard.weeklyProductsData[n].products = 0

\* ------------------------------------------------------------------------
\* Claims about the page window (checked under SpecInventory)
\* ------------------------------------------------------------------------
\* the pages lo, lo + 1, ..., hi as tokens; empty when hi < lo
PageRun(lo, hi) == [i \in 1..(hi - lo + 1) |-> PageToken(lo + i - 1)]

\* the stated token sequence for radius 2
StatedWindow(currentPage, totalPages) ==
  <<PageToken(1)>>
  \o (IF currentPage - 2 > 2 THEN <<Ellipsis>> ELSE <<>>)
  \o PageRun(IF currentPage - 2 > 2 THEN currentPage - 2 ELSE 2,
             IF currentPage + 2 < totalPages - 1 THEN currentPage + 2 ELSE totalPages - 1)
  \o (IF currentPage + 2 < totalPages - 1 THEN <<Ellipsis>> ELSE <<>>)
  \o <<PageToken(totalPages)>>

\* C6: for currentPage >= 1 and totalPages >= 2 the rendered tokens are page
\* 1, a "..." exactly when currentPage - 2 > 2, the pages max(2, currentPage
\* - 2) .. min(totalPages - 1, currentPage + 2), a "..." exactly when
\* currentPage + 2 < totalPages - 1, and totalPages last; (5, 10) gives
\* 1 ... 3 4 5 6 7 ... 10 and (1, 3) gives 1 2 3.
C6_PageWindow ==
  /\ (nav.called /\ nav.currentPage >= 1 /\ nav.totalPages >= 2) =>
       /\ nav.element.rendered
       /\ nav.element.visiblePages = StatedWindow(nav.currentPage, nav.totalPages)
  /\ (nav.called /\ nav.currentPage = 5 /\ nav.totalPages = 10) =>
       nav.element.visiblePages =
         <<PageToken(1), Ellipsis, PageToken(3), PageToken(4), PageToken(5),
           PageToken(6), PageToken(7), Ellipsis, PageToken(10)>>
  /\ (nav.called /\ nav.currentPage = 1 /\ nav.totalPages = 3) =>
       nav.element.visiblePages = <<PageToken(1), PageToken(2), PageToken(3)>>
  /\ (inventory.rendered /\ inventory.totalPages >= 2) =>
       /\ inventory.pagination.rendered
       /\ inventory.pagination.visiblePages
            = StatedWindow(inventory.page, inventory.totalPages)

\* C6 witness: the component rendered for page 5 of 10, with both ellipses
C6_Witness ==
  /\ nav.called
  /\ nav.currentPage = 5
  /\ nav.totalPages = 10
  /\ nav.element.rendered
  /\ Len(nav.element.visiblePages) = 9
  /\ nav.element.visiblePages[2].ellipsis
  /\ nav.element.visiblePages[8].ellipsis

\* C7 as stated: for totalPages = 1 the page-window computation yields the
\* one token 1, and nothing is rendered for totalPages <= 1.
C7_SinglePageWindowIsOne ==
  /\ (nav.called /\ nav.totalPages = 1) =>
       GetVisiblePages(nav.currentPage, nav.totalPages) = <<PageToken(1)>>
  /\ (nav.called /\ nav.totalPages <= 1) => ~nav.element.rendered
  /\ (inventory.rendered /\ inventory.totalPages <= 1) => ~inventory.pagination.rendered

\* C7 as amended: for totalPages <= 1 nothing is rendered, neither by
\* Pagination (which returns before computing any page window) nor by
\* InventoryPage; the page-window computation has no case for totalPages = 1
\* and would put page 1 first and again last.
C7_NothingRenderedForSinglePage ==
  /\ (nav.called /\ nav.totalPages <= 1) => nav.element = NoElement
  /\ (inventory.rendered /\ inventory.totalPages <= 1) => inventory.pagination = NoElement
  /\ (nav.called /\ nav.totalPages = 1) =>
       LET window == GetVisiblePages(nav.currentPage, nav.totalPages) IN
       /\ Len(window) >= 2
       /\ window[1] = PageToken(1)
       /\ window[Len(window)] = PageToken(1)
       /\ nav.currentPage = 1 => window = <<PageToken(1), PageToken(1)>>

\* C7 witness: the component given a single page returns nothing
C7_Witness ==
  /\ nav.called
  /\ nav.totalPages = 1
  /\ nav.currentPage = 1
  /\ ~nav.element.rendered

\* ------------------------------------------------------------------------
\* Claims about the server actions (checked under SpecProducts)
\* ------------------------------------------------------------------------
\* the identifier a delete form names
StatedId(formData) == IF formData.id = NULL THEN <<>> ELSE Val(formData.id)

\* C8: deleteProduct called by user u with identifier id removes exactly the
\* rows whose id is id and whose owner is u and leaves every other row as it
\* was, in its place; when id names a row of another user or no row, the
\* table is unchanged and no error is raised (the database carrying out the
\* statement).
C8_DeleteScopedByIdAndOwner ==
  [][ (outcome'.called /\ outcome'.action = "deleteProduct" /\ outcome'.dbOk) =>
        LET u  == outcome'.userId
            id == StatedId(outcome'.formData)
            targets == { k \in 1..Len(products) :
                           products[k].id = id /\ products[k].userId = u }
        IN  /\ products' = SelectSeq(products, LAMBDA p : ~(p.id = id /\ p.userId = u))
            /\ Len(products') = Len(products) - Cardinality(targets)
            /\ targets = {} => products' = products
            /\ outcome'.error = NULL
    ]_vars

\* C8 witness: a user has asked to delete a row that another user owns; the
\* row is still in the table and no error was raised
C8_Witness ==
  /\ outcome.called
  /\ outcome.action = "deleteProduct"
  /\ outcome.dbOk
  /\ outcome.error = NULL
  /\ \E k \in 1..Len(products) :
       /\ products[k].id = StatedId(outcome.formData)
       /\ products[k].userId # outcome.userId

\* the ways the create form fails validation: an empty name, a price not
\* coercible to a non-negative number, a quantity not coercible to a
\* non-negative integer
StatedInvalid(formData) ==
  \/ formData.name = NULL
  \/ formData.name = Some(<<>>)
  \/ CoerceNumber(formData.price).nan
  \/ CoerceNumber(formData.price).tenths < 0
  \/ CoerceNumber(formData.quantity).nan
  \/ CoerceNumber(formData.quantity).tenths < 0
  \/ CoerceNumber(formData.quantity).tenths % 10 # 0

\* C9: createProduct with input that fails validation raises the validation
\* error and leaves the table unchanged; a write the database rejects after
\* validation passed raises another error, so the two can be told apart.
C9_ValidationErrorLeavesStore ==
  [][ (outcome'.called /\ outcome'.action = "createProduct") =>
        /\ StatedInvalid(outcome'.formData) =>
             /\ products' = products
             /\ outcome'.error = Some("Validation failed")
        /\ (~StatedInvalid(outcome'.formData) /\ ~outcome'.dbOk) =>
             /\ products' = products
             /\ outcome'.error # NULL
             /\ outcome'.error # Some("Validation failed")
    ]_vars

\* C9 witness: a form with a fractional quantity was refused although the
\* database would have stored it
C9_Witness ==
  /\ outcome.called
  /\ outcome.action = "createProduct"
  /\ outcome.dbOk
  /\ outcome.formData.quantity = Some(<<"1", ".", "5">>)
  /\ outcome.error = Some("Validation failed")
  /\ created = 0

\* C10: createProduct reports "Failed to create product" only when the write
\* failed after validation passed; when validation passes and the write
\* succeeds, the row is stored and the action ends by redirecting to
\* /inventory without reporting a failure.
C10_FailureOnlyWhenWriteFailed ==
  (outcome.called /\ outcome.action = "createProduct") =>
    /\ outcome.error = Some("Failed to create product") =>
         (~StatedInvalid(outcome.formData) /\ ~outcome.dbOk)
    /\ (~StatedInvalid(outcome.formData) /\ outcome.dbOk) =>
         /\ outcome.count = 1
         /\ outcome.error = NULL
         /\ outcome.redirect = Some("/inventory")

\* ------------------------------------------------------------------------
\* Claims about the stored record of a create (checked under SpecProducts)
\* ------------------------------------------------------------------------
\* the lowStockAt the create surface is said to store: the supplied
\* non-negative integer, absent only when the form supplied none
StatedLowStockAt(formData) ==
  IF formData.lowStockAt = NULL \/ Val(formData.lowStockAt) = <<>>
  THEN NULL
  ELSE Some(CoerceNumber(formData.lowStockAt).tenths \div 10)

\* C11: a product created from valid input that supplies a non-negative
\* integer lowStockAt = n is stored with lowStockAt = n, with the supplied
\* name, price, quantity and sku, owned by the calling user; lowStockAt is
\* absent on the stored record only when the input did not supply it.
C11_CreateStoresLowStockAt ==
  [][ (outcome'.called /\ outcome'.action = "createProduct" /\ outcome'.count = 1)
      => LET f   == outcome'.formData
             row == products'[Len(products')]
         IN  /\ Len(products') = Len(products) + 1
             /\ row.userId = outcome'.userId
             /\ row.name = Val(f.name)
             /\ row.price = CoerceNumber(f.price).tenths
             /\ row.quantity = CoerceNumber(f.quantity).tenths \div 10
             /\ row.sku = SkuInput(f)
             /\ row.lowStockAt = StatedLowStockAt(f) ]_vars

\* ------------------------------------------------------------------------
\* Claims about the inventory page's slices (checked under SpecBrowse)
\* ------------------------------------------------------------------------
\* the page number a request asks for: 1 when the parameter is absent
StatedRequestedPage(paramPage) ==
  IF paramPage = NULL THEN 1 ELSE Number(Val(paramPage))

\* the positions of the table whose record is the user's and matches the filter
StatedMatching(userId, q) ==
  { k \in 1..Len(products) :
      /\ products[k].userId = userId
      /\ (q # <<>> => ContainsInsensitive(products[k].name, q)) }

\* what one rendering of the inventory page shows: the clamped page, the
\* number of pages, and at most 5 matching records, newest first, that come
\* after the first (page - 1) * 5 of the creation-time-descending order
C12_SliceOfOneRequest ==
  inventory.rendered =>
    LET matching   == StatedMatching(inventory.userId, inventory.q)
        matchCount == Cardinality(matching)
        skipped    == (inventory.page - 1) * 5
        items      == inventory.items
    IN  /\ inventory.page = Max(1, StatedRequestedPage(inventory.params.page))
        /\ inventory.totalPages = Max(1, (matchCount + 4) \div 5)
        /\ Len(items) = Max(0, Min(5, matchCount - skipped))
        /\ \A i \in 1..Len(items) :
             /\ \E k \in matching : products[k] = items[i]
             /\ \A j \in (i + 1)..Len(items) : items[i].createdAt >= items[j].createdAt
             /\ Cardinality({ k \in matching :
                                products[k].createdAt > items[i].createdAt })
                  <= skipped + i - 1
             /\ Cardinality({ k \in matching :
                                products[k].createdAt >= items[i].createdAt })
                  >= skipped + i

\* the ids of the records a rendering shows
ShownIds(rendering) == { rendering.items[i].id : i \in 1..Len(rendering.items) }

\* two requests of one browse: the same user and filter, different pages
OtherPageOfBrowse(a, b) ==
  /\ a.rendered /\ b.rendered
  /\ a.userId = b.userId /\ a.q = b.q
  /\ a.page # b.page

\* C12: the requested page is clamped to at least 1, totalPages is
\* max(1, ceil(matchCount / 5)), page p shows at most 5 matching records of
\* the user, newest first, starting after the first (p - 1) * 5, and over the
\* pages of a browse of a fixed table every matching record is shown on
\* exactly one page: no record is shown on two pages, and the pages together
\* show as many records as match.
C12_PagesPartitionMatches ==
  /\ [] C12_SliceOfOneRequest
  /\ [][ OtherPageOfBrowse(inventory, inventory')
         => ShownIds(inventory) \cap ShownIds(inventory') = {} ]_vars

\* without two matching records created at the same instant no record is
\* shown on two pages
C12_DisjointWithoutSharedInstants ==
  [][ (/\ OtherPageOfBrowse(inventory, inventory')
       /\ \A k, l \in StatedMatching(inventory.userId, inventory.q) :
            k # l => products[k].createdAt # products[l].createdAt)
      => ShownIds(inventory) \cap ShownIds(inventory') = {} ]_vars

\* ------------------------------------------------------------------------
\* Claims about the dashboard under concurrent writes (checked under
\* SpecConcurrent)
\* ------------------------------------------------------------------------
\* C13: the total used as the percentage denominator and shown as Total
\* Products equals the number of records classified into the three stock
\* counts, each percentage lies in 0..100 and the three counts sum to the
\* displayed total, also when createProduct or deleteProduct of the same
\* user commits between the dashboard's count query and its record-fetch
\* query.
C13_TotalMatchesClassifiedRecords ==
  dashboard.rendered =>
    /\ dashboard.totalProducts = Len(dashboard.allProducts)
    /\ dashboard.inStockCount + dashboard.lowStockCount + dashboard.outOfStockCount
         = dashboard.totalProducts
    /\ dashboard.inStockPercentage \in 0..100
    /\ dashboard.lowStockPercentage \in 0..100
    /\ dashboard.outOfStockPercentage \in 0..100

\* ------------------------------------------------------------------------
\* Claims about the tokens the inventory page renders (checked under
\* SpecInventory)
\* ------------------------------------------------------------------------
\* the page links of a rendered <nav>, in order, without the "..." tokens
PageLinks(element) == SelectSeq(element.links, LAMBDA l : ~l.ellipsis)

\* the page numbers of the links are strictly increasing
IncreasingPageNumbers(element) ==
  \A i, j \in 1..Len(PageLinks(element)) :
    i < j => PageLinks(element)[i].pageNumber < PageLinks(element)[j].pageNumber

\* the number of links highlighted as the current page
HighlightedLinks(element) ==
  Cardinality({ i \in 1..Len(PageLinks(element)) : PageLinks(element)[i].isCurrentPage })

\* C14: for every currentPage >= 1 the inventory page passes (clamped to at
\* least 1, not to totalPages) and every totalPages >= 2, the page numbers of
\* the rendered tokens are strictly increasing, currentPage is one of them,
\* and exactly one token is highlighted as the current page.
C14_OneCurrentPageAmongIncreasing ==
  (inventory.rendered /\ inventory.page >= 1 /\ inventory.totalPages >= 2) =>
    /\ inventory.pagination.rendered
    /\ IncreasingPageNumbers(inventory.pagination)
    /\ \E i \in 1..Len(inventory.pagination.visiblePages) :
         inventory.pagination.visiblePages[i] = PageToken(inventory.page)
    /\ HighlightedLinks(inventory.pagination) = 1

\* the same for the requests whose page is not beyond totalPages, and the
\* increasing page numbers for every request
C14_HoldsUpToTotalPages ==
  (inventory.rendered /\ inventory.totalPages >= 2) =>
    /\ inventory.pagination.rendered
    /\ IncreasingPageNumbers(inventory.pagination)
    /\ inventory.page <= inventory.totalPages =>
         /\ \E i \in 1..Len(inventory.pagination.visiblePages) :
              inventory.pagination.visiblePages[i] = PageToken(inventory.page)
         /\ HighlightedLinks(inventory.pagination) = 1

\* ------------------------------------------------------------------------
\* Claims about the links of the Pagination component (checked under
\* SpecInventory)
\* ------------------------------------------------------------------------
\* the hrefs of every link of a rendered <nav>: Previous, the page numbers, Next
LinkHrefs(element) ==
  {element.previous.href, element.next.href}
  \cup { PageLinks(element)[i].href : i \in 1..Len(PageLinks(element)) }

\* the page number an href targets
TargetPage(href) == Number(href.query["page"])

\* an href carries the caller's query parameters other than page unchanged
CarriesParams(href, searchParams) ==
  \A k \in DOMAIN searchParams \ {"page"} :
    k \in DOMAIN href.query /\ href.query[k] = searchParams[k]

\* the component was rendered on a valid page and returned its <nav>
RenderedOnValidPage ==
  /\ nav.called /\ nav.element.rendered
  /\ nav.currentPage \in 1..nav.totalPages

\* C15: every link the pagination control renders (Previous, each page
\* number, Next) targets a page within 1..totalPages and carries every
\* caller-supplied query parameter other than page unchanged; Previous never
\* targets page 0 when currentPage = 1 and Next never targets totalPages + 1
\* when currentPage = totalPages.
C15_LinksStayWithinPages ==
  RenderedOnValidPage =>
    \A href \in LinkHrefs(nav.element) :
      /\ TargetPage(href) \in 1..nav.totalPages
      /\ CarriesParams(href, nav.searchParams)

\* the page number links stay within 1..totalPages, every link carries the
\* caller's other parameters, and Previous and Next stay within the pages
\* wherever they are not marked disabled
C15_EnabledLinksStayWithinPages ==
  RenderedOnValidPage =>
    /\ \A href \in LinkHrefs(nav.element) : CarriesParams(href, nav.searchParams)
    /\ \A i \in 1..Len(PageLinks(nav.element)) :
         TargetPage(PageLinks(nav.element)[i].href) \in 1..nav.totalPages
    /\ ~nav.element.previous.disabled =>
         TargetPage(nav.element.previous.href) \in 1..nav.totalPages
    /\ ~nav.element.next.disabled =>
         TargetPage(nav.element.next.href) \in 1..nav.totalPages

====
